---- MODULE Spec2Model ----
(***************************************************************************)
(* Team builder of autogen-studio: the typed node/edge graph, the node     *)
(* components that expose connection handles and drop zones, the drop-zone *)
(* validator and the edge component.                                       *)
(*                                                                         *)
(* nodes.tsx holds the components (DroppableZone, TeamNode, AgentNode,     *)
(* ModelNode, ToolNode, TerminationNode, nodeTypes, CustomEdge).  The      *)
(* graph assembler (create, updateConfig, proposeConnection, addNode,      *)
(* removeNode, attach, detach) lives outside nodes.tsx and is modelled     *)
(* from sections 4.2, 4.4 and 4.5 of the specification:                    *)
(*   - a config is abstracted to its variant tag and its references;       *)
(*     new nodes carry no references, and updateConfig replaces the        *)
(*     payload but not the references (attach, detach and removeNode do);  *)
(*   - a Termination attached to a Team is a config reference without an   *)
(*     Edge, since no connection type is defined for that pair;            *)
(*   - the kind of a removed node is forgotten; a stale node object passed *)
(*     to attach may carry any kind.                                       *)
(***************************************************************************)
EXTENDS Integers, Sequences, FiniteSets, TLC

\* ---- bounds ----
MaxNodes == 3
MaxEdges == 2
MaxAccepts == 2

\* ---- vocabulary ----
Nil == "nil"
NoRef == 0

ComponentTypes == {"team", "agent", "model", "tool", "termination"}

EdgeType == {"model-connection", "tool-connection", "participant-connection"}

Outcomes == {"ok", "KindMismatch", "IncompatibleKinds", "SlotOccupied", "UnknownNode"}

Slots == {"model-slot", "participant-slot", "tool-slot", "termination-slot"}

VARIABLES
    nextNode,   \* next node id
    nodes,      \* ids of the nodes in the graph
    kind,       \* kind tag of every node in the graph
    config,     \* config payload of every node in the graph
    edges,      \* the edge set
    nextEdge,   \* next edge id
    result,     \* outcome of the last assembler operation
    accepts,    \* DroppableZone: the zone's accepts list
    isOver,     \* DroppableZone: useDroppable's isOver
    active,     \* DroppableZone: useDroppable's active item
    edgeProps,  \* CustomEdge: the props of the edge being drawn
    edgeStyle   \* CustomEdge: the stroke entry handed to BaseEdge

graphVars == <<nextNode, nodes, kind, config, edges, nextEdge, result>>
zoneVars == <<accepts, isOver, active>>
edgeVars == <<edgeProps, edgeStyle>>
vars == <<nextNode, nodes, kind, config, edges, nextEdge, result, accepts, isOver, active, edgeProps, edgeStyle>>

\* ---- sequences ----
Includes(seq, x) == \E i \in 1..Len(seq) : seq[i] = x

Count(seq, x) == Cardinality({i \in 1..Len(seq) : seq[i] = x})

RECURSIVE Without(_, _)
Without(seq, x) ==
    IF seq = <<>> THEN <<>>
    ELSE IF Head(seq) = x THEN Without(Tail(seq), x)
    ELSE <<Head(seq)>> \o Without(Tail(seq), x)

LastIndexOf(seq, x) ==
    IF Includes(seq, x) THEN CHOOSE i \in 1..Len(seq) : seq[i] = x /\ \A j \in (i + 1)..Len(seq) : seq[j] # x
    ELSE 0

RemoveLast(seq, x) ==
    IF LastIndexOf(seq, x) = 0 THEN seq
    ELSE SubSeq(seq, 1, LastIndexOf(seq, x) - 1) \o SubSeq(seq, LastIndexOf(seq, x) + 1, Len(seq))

\* ---- ComponentConfig ----
NewConfig(variant) ==
    [variant |-> variant,
     model_client |-> NoRef,
     participants |-> <<>>,
     tools |-> <<>>,
     termination_condition |-> NoRef]

\* ---- Node ----
Generated == 1..(nextNode - 1)

Create(k, cfg) == IF cfg.variant = k THEN "ok" ELSE "KindMismatch"

\* ---- Edge / connection legality ----
AllowedPairs ==
    {<<"model", "team">>, <<"model", "agent">>, <<"tool", "agent">>,
     <<"agent", "team">>, <<"termination", "team">>}

ConnectionTypeOf(sourceKind, targetKind) ==
    CASE sourceKind = "model" /\ targetKind \in {"team", "agent"} -> "model-connection"
      [] sourceKind = "tool" /\ targetKind = "agent" -> "tool-connection"
      [] sourceKind = "agent" /\ targetKind = "team" -> "participant-connection"
      [] OTHER -> Nil

SlotFor(sourceKind) ==
    CASE sourceKind = "model" -> "model-slot"
      [] sourceKind = "agent" -> "participant-slot"
      [] sourceKind = "tool" -> "tool-slot"
      [] sourceKind = "termination" -> "termination-slot"
      [] OTHER -> Nil

\* the kind tag a node object carries: that of the graph's node, or the one a
\* stale object (of a node no longer in the graph) was created with
KindsOf(id) == IF id \in nodes THEN {kind[id]} ELSE ComponentTypes

SlotOccupied(target, slot) ==
    /\ target \in nodes
    /\ \/ slot = "model-slot" /\ config[target].model_client # NoRef
       \/ slot = "termination-slot" /\ config[target].termination_condition # NoRef

ProposeConnection_ImplicitReplace(source, sourceKind, target, targetKind, slot) ==
    IF <<sourceKind, targetKind>> \notin AllowedPairs
    THEN "IncompatibleKinds"
    ELSE IF source \notin nodes \/ target \notin nodes THEN "UnknownNode"
    ELSE "ok"

ProposeConnection(source, sourceKind, target, targetKind, slot) ==
    IF <<sourceKind, targetKind>> \notin AllowedPairs
    THEN "IncompatibleKinds"
    ELSE IF SlotOccupied(target, slot) THEN "SlotOccupied"
    ELSE IF source \notin nodes \/ target \notin nodes THEN "UnknownNode"
    ELSE "ok"

NewEdge(source, target) ==
    [id |-> nextEdge,
     source |-> source,
     sourceHandle |-> <<source, "output-handle">>,
     target |-> target,
     targetHandle |-> <<target, "input-handle">>,
     type |-> ConnectionTypeOf(kind[source], kind[target])]

\* ---- Graph Assembler ----
AddNode(k, cfg) ==
    /\ nextNode <= MaxNodes
    /\ result' = Create(k, cfg)
    /\ IF Create(k, cfg) = "ok"
       THEN /\ nextNode' = nextNode + 1
            /\ nodes' = nodes \cup {nextNode}
            /\ kind' = [i \in nodes \cup {nextNode} |-> IF i = nextNode THEN k ELSE kind[i]]
            /\ config' = [i \in nodes \cup {nextNode} |-> IF i = nextNode THEN cfg ELSE config[i]]
       ELSE UNCHANGED <<nextNode, nodes, kind, config>>
    /\ UNCHANGED <<edges, nextEdge>>

UpdateConfig(id, newConfig) ==
    /\ id \in nodes
    /\ IF newConfig.variant = kind[id]
       THEN /\ result' = "ok"
            /\ config' = [config EXCEPT ![id] = newConfig]
       ELSE /\ result' = "KindMismatch"
            /\ UNCHANGED config
    /\ UNCHANGED <<nextNode, nodes, kind, edges, nextEdge>>

Attached(cfg, slot, child) ==
    CASE slot = "model-slot" -> [cfg EXCEPT !.model_client = child]
      [] slot = "participant-slot" -> [cfg EXCEPT !.participants = Append(@, child)]
      [] slot = "tool-slot" -> [cfg EXCEPT !.tools = Append(@, child)]
      [] slot = "termination-slot" -> [cfg EXCEPT !.termination_condition = child]

Attach(parent, child, slot) ==
    /\ parent \in Generated
    /\ child \in Generated
    /\ result' \in {ProposeConnection(child, childKind, parent, parentKind, slot) :
                        parentKind \in KindsOf(parent),
                        childKind \in {k \in KindsOf(child) : SlotFor(k) = slot}}
    /\ IF result' = "ok"
       THEN /\ config' = [config EXCEPT ![parent] = Attached(@, slot, child)]
            /\ IF ConnectionTypeOf(kind[child], kind[parent]) # Nil
               THEN /\ nextEdge <= MaxEdges
                    /\ edges' = edges \cup {NewEdge(child, parent)}
                    /\ nextEdge' = nextEdge + 1
               ELSE UNCHANGED <<edges, nextEdge>>
       ELSE UNCHANGED <<config, edges, nextEdge>>
    /\ UNCHANGED <<nextNode, nodes, kind>>

Detached_KeepsTools(cfg, e) ==
    CASE e.type = "model-connection" -> [cfg EXCEPT !.model_client = NoRef]
      [] e.type = "participant-connection" -> [cfg EXCEPT !.participants = RemoveLast(@, e.source)]
      [] e.type = "tool-connection" -> cfg

Detached(cfg, e) ==
    CASE e.type = "model-connection" -> [cfg EXCEPT !.model_client = NoRef]
      [] e.type = "participant-connection" -> [cfg EXCEPT !.participants = RemoveLast(@, e.source)]
      [] e.type = "tool-connection" -> [cfg EXCEPT !.tools = RemoveLast(@, e.source)]

ConfigWithout(cfgs, e) == [cfgs EXCEPT ![e.target] = Detached(@, e)]

Detach(e) ==
    /\ e \in edges
    /\ edges' = edges \ {e}
    /\ config' = ConfigWithout(config, e)
    /\ result' = "ok"
    /\ UNCHANGED <<nextNode, nodes, kind, nextEdge>>

Dereferenced_KeepsParticipants(cfg, id) ==
    [cfg EXCEPT !.model_client = IF @ = id THEN NoRef ELSE @,
                !.tools = Without(@, id),
                !.termination_condition = IF @ = id THEN NoRef ELSE @]

Dereferenced(cfg, id) ==
    [cfg EXCEPT !.model_client = IF @ = id THEN NoRef ELSE @,
                !.participants = Without(@, id),
                !.tools = Without(@, id),
                !.termination_condition = IF @ = id THEN NoRef ELSE @]

RemoveNode(id) ==
    /\ id \in Generated
    /\ IF id \in nodes
       THEN /\ result' = "ok"
            /\ nodes' = nodes \ {id}
            /\ kind' = [i \in nodes \ {id} |-> kind[i]]
            /\ edges' = {e \in edges : e.source # id /\ e.target # id}
            /\ config' = [i \in nodes \ {id} |-> Dereferenced(config[i], id)]
       ELSE /\ result' = "UnknownNode"
            /\ UNCHANGED <<nodes, kind, edges, config>>
    /\ UNCHANGED <<nextNode, nextEdge>>

\* ---- node components ----
Handle(id, type, slot) == [node |-> id, type |-> type, id |-> <<id, slot>>]

Zone(id, slot, zoneAccepts) == [id |-> <<id, slot>>, accepts |-> zoneAccepts]

TeamNode_InputOnceAttached(id, cfg) ==
    [as |-> "team",
     handles |-> (IF cfg.model_client # NoRef \/ cfg.termination_condition # NoRef \/ Len(cfg.participants) > 0
                  THEN <<Handle(id, "target", "input-handle")>>
                  ELSE <<>>) \o <<Handle(id, "source", "output-handle")>>,
     zones |-> <<Zone(id, "model-zone", <<"model">>),
                 Zone(id, "agent-zone", <<"agent">>),
                 Zone(id, "termination-zone", <<"termination">>)>>]

TeamNode(id, cfg) ==
    [as |-> "team",
     handles |-> (IF cfg.model_client # NoRef \/ cfg.termination_condition # NoRef
                  THEN <<Handle(id, "target", "input-handle")>>
                  ELSE <<>>) \o <<Handle(id, "source", "output-handle")>>,
     zones |-> <<Zone(id, "model-zone", <<"model">>),
                 Zone(id, "agent-zone", <<"agent">>),
                 Zone(id, "termination-zone", <<"termination">>)>>]

AgentNode(id, cfg) ==
    [as |-> "agent",
     handles |-> <<Handle(id, "target", "input-handle"), Handle(id, "target", "output-handle")>>,
     zones |-> <<Zone(id, "model-zone", <<"model">>), Zone(id, "tool-zone", <<"tool">>)>>]

ModelNode(id, cfg) ==
    [as |-> "model",
     handles |-> <<Handle(id, "source", "output-handle")>>,
     zones |-> <<>>]

ToolNode_WithInput(id, cfg) ==
    [as |-> "tool",
     handles |-> <<Handle(id, "target", "input-handle"), Handle(id, "source", "output-handle")>>,
     zones |-> <<>>]

ToolNode(id, cfg) ==
    [as |-> "tool",
     handles |-> <<Handle(id, "source", "output-handle")>>,
     zones |-> <<>>]

TerminationNode(id, cfg) ==
    [as |-> "termination",
     handles |-> <<Handle(id, "source", "output-handle")>>,
     zones |-> <<>>]

nodeTypes_ToolAsModel(type, id, cfg) ==
    CASE type = "team" -> TeamNode(id, cfg)
      [] type = "agent" -> AgentNode(id, cfg)
      [] type = "model" -> ModelNode(id, cfg)
      [] type = "tool" -> ModelNode(id, cfg)
      [] type = "termination" -> TerminationNode(id, cfg)

nodeTypes(type, id, cfg) ==
    CASE type = "team" -> TeamNode(id, cfg)
      [] type = "agent" -> AgentNode(id, cfg)
      [] type = "model" -> ModelNode(id, cfg)
      [] type = "tool" -> ToolNode(id, cfg)
      [] type = "termination" -> TerminationNode(id, cfg)

Rendered(id) == nodeTypes(kind[id], id, config[id])

HandlesOf(id, type) == {i \in 1..Len(Rendered(id).handles) : Rendered(id).handles[i].type = type}

\* ---- DroppableZone ----
NoActive == [shape |-> "null", type |-> Nil]

DragItems ==
    {[shape |-> sh, type |-> Nil] : sh \in {"no-data", "no-current", "no-type"}}
        \cup {[shape |-> "typed", type |-> k] : k \in ComponentTypes}

\* active?.data?.current?.current?.type
ActiveType(item) == IF item.shape = "typed" THEN item.type ELSE Nil

isValidDrop_AnyTypedItem(zoneAccepts, over, item) ==
    over /\ ActiveType(item) # Nil

isValidDrop_OverOnly(zoneAccepts, over, item) ==
    over /\ (ActiveType(item) = Nil \/ Includes(zoneAccepts, ActiveType(item)))

isValidDrop(zoneAccepts, over, item) ==
    over /\ ActiveType(item) # Nil /\ Includes(zoneAccepts, ActiveType(item))

DroppableZone(zoneAccepts, over, item) ==
    IF isValidDrop(zoneAccepts, over, item) THEN "droppable-zone p-2 can-drop" ELSE "droppable-zone p-2"

CanDrop == DroppableZone(accepts, isOver, active) = "droppable-zone p-2 can-drop"

DragStart(item) ==
    /\ active = NoActive
    /\ active' = item
    /\ UNCHANGED <<accepts, isOver>>

DragOver ==
    /\ active # NoActive
    /\ ~isOver
    /\ isOver' = TRUE
    /\ UNCHANGED <<accepts, active>>

DragLeave ==
    /\ isOver
    /\ isOver' = FALSE
    /\ UNCHANGED <<accepts, active>>

DragEnd ==
    /\ active # NoActive
    /\ active' = NoActive
    /\ isOver' = FALSE
    /\ UNCHANGED accepts

\* ---- CustomEdge ----
EDGE_STYLES ==
    [t \in EdgeType |->
        CASE t = "model-connection" -> "rgb(59, 130, 246)"
          [] t = "tool-connection" -> "rgb(34, 197, 94)"
          [] t = "participant-connection" -> "rgb(168, 85, 247)"]

NoData == [defined |-> FALSE, type |-> Nil]

EdgeData == {NoData} \cup {[defined |-> TRUE, type |-> t] : t \in EdgeType \cup {Nil}}

NoEdge == [id |-> 0, source |-> 0, target |-> 0, data |-> NoData]

NoStyle == [edgeType |-> Nil, stroke |-> Nil]

CustomEdge(props) ==
    LET edgeType == IF props.data.defined /\ props.data.type # Nil
                    THEN props.data.type
                    ELSE "model-connection"
    IN [edgeType |-> edgeType, stroke |-> EDGE_STYLES[edgeType]]

RenderEdge(e, data) ==
    /\ e \in edges
    /\ edgeProps' = [id |-> e.id, source |-> e.source, target |-> e.target, data |-> data]
    /\ edgeStyle' = CustomEdge([id |-> e.id, source |-> e.source, target |-> e.target, data |-> data])

\* ---- specifications ----
InitGraph ==
    /\ nextNode = 1
    /\ nodes = {}
    /\ kind = <<>>
    /\ config = <<>>
    /\ edges = {}
    /\ nextEdge = 1
    /\ result = "ok"

InitZone ==
    /\ accepts = <<>>
    /\ isOver = FALSE
    /\ active = NoActive

InitEdge ==
    /\ edgeProps = NoEdge
    /\ edgeStyle = NoStyle

Init == InitGraph /\ InitZone /\ InitEdge

AcceptsLists == UNION {[1..n -> ComponentTypes] : n \in 0..MaxAccepts}

Next ==
    \/ (\E k \in ComponentTypes, v \in ComponentTypes : AddNode(k, NewConfig(v)))
          /\ UNCHANGED <<zoneVars, edgeVars>>
    \/ (\E id \in nodes, v \in ComponentTypes : UpdateConfig(id, [config[id] EXCEPT !.variant = v]))
          /\ UNCHANGED <<zoneVars, edgeVars>>
    \/ (\E parent \in Generated, child \in Generated, slot \in Slots : Attach(parent, child, slot))
          /\ UNCHANGED <<zoneVars, edgeVars>>
    \/ (\E e \in edges : Detach(e)) /\ UNCHANGED <<zoneVars, edgeVars>>
    \/ (\E id \in Generated : RemoveNode(id)) /\ UNCHANGED <<zoneVars, edgeVars>>

Spec == Init /\ [][Next]_vars

\* the drag session over one drop zone
InitDrag ==
    /\ InitGraph
    /\ InitEdge
    /\ accepts \in AcceptsLists
    /\ isOver = FALSE
    /\ active = NoActive

NextDrag ==
    \/ (\E item \in DragItems : DragStart(item)) /\ UNCHANGED <<graphVars, edgeVars>>
    \/ DragOver /\ UNCHANGED <<graphVars, edgeVars>>
    \/ DragLeave /\ UNCHANGED <<graphVars, edgeVars>>
    \/ DragEnd /\ UNCHANGED <<graphVars, edgeVars>>

SpecDrag == InitDrag /\ [][NextDrag]_vars

\* drawing the edges of an assembled graph
NextDraw ==
    \/ (\E k \in ComponentTypes, v \in ComponentTypes : AddNode(k, NewConfig(v)))
          /\ UNCHANGED <<zoneVars, edgeVars>>
    \/ (\E parent \in Generated, child \in Generated, slot \in Slots : Attach(parent, child, slot))
          /\ UNCHANGED <<zoneVars, edgeVars>>
    \/ (\E e \in edges, data \in EdgeData : RenderEdge(e, data)) /\ UNCHANGED <<graphVars, zoneVars>>

SpecDraw == Init /\ [][NextDraw]_vars

\* ---- properties ----
LeafTypes == {"model", "tool", "termination"}

\* C1 (as stated): a zone shows can-drop exactly when the dragged item's kind
\* is in the zone's accepts list, whatever else holds.
C1_CanDropIffAccepted == CanDrop <=> Includes(accepts, ActiveType(active))

\* C1 (amended): a zone shows can-drop exactly when the dragged item is over
\* the zone and its kind is in the zone's accepts list; a zone the item is
\* not over never shows can-drop.
C1_CanDropIffOverAndAccepted == CanDrop <=> (isOver /\ Includes(accepts, ActiveType(active)))

C1_Witness ==
    /\ isOver
    /\ active.shape = "typed"
    /\ Includes(accepts, active.type)
    /\ CanDrop

\* C2: every Agent node exposes exactly two handles, one target handle (the
\* input handle) and one source handle (the output handle).
C2_AgentOneTargetOneSource ==
    \A id \in nodes :
        kind[id] = "agent" =>
            /\ Len(Rendered(id).handles) = 2
            /\ Cardinality(HandlesOf(id, "target")) = 1
            /\ Cardinality(HandlesOf(id, "source")) = 1
            /\ \A i \in HandlesOf(id, "target") : Rendered(id).handles[i].id = <<id, "input-handle">>
            /\ \A i \in HandlesOf(id, "source") : Rendered(id).handles[i].id = <<id, "output-handle">>

\* C3: every Team node exposes exactly one source handle, and a target handle
\* exactly when its config has a model or a termination condition attached.
C3_TeamHandles ==
    \A id \in nodes :
        kind[id] = "team" =>
            /\ Cardinality(HandlesOf(id, "source")) = 1
            /\ Cardinality(HandlesOf(id, "target")) <= 1
            /\ Len(Rendered(id).handles) = Cardinality(HandlesOf(id, "source")) + Cardinality(HandlesOf(id, "target"))
            /\ (HandlesOf(id, "target") # {}) <=>
                   (config[id].model_client # NoRef \/ config[id].termination_condition # NoRef)

C3_Witness ==
    \E id \in nodes :
        /\ kind[id] = "team"
        /\ Len(config[id].participants) > 0
        /\ config[id].model_client = NoRef
        /\ config[id].termination_condition = NoRef
        /\ HandlesOf(id, "target") = {}
        /\ Cardinality(HandlesOf(id, "source")) = 1

\* C4: every Model, Tool and Termination node exposes exactly one handle, a
\* source handle, and no drop zone; no edge has such a node as its target and
\* nothing is ever attached to such a node.
C4_LeavesNeverReceive ==
    \A id \in nodes :
        kind[id] \in LeafTypes =>
            /\ Rendered(id).handles = <<Handle(id, "source", "output-handle")>>
            /\ Rendered(id).zones = <<>>
            /\ \A e \in edges : e.target # id
            /\ config[id].model_client = NoRef
            /\ config[id].participants = <<>>
            /\ config[id].tools = <<>>
            /\ config[id].termination_condition = NoRef

C4_Witness ==
    /\ result = "IncompatibleKinds"
    /\ \E id \in nodes : kind[id] \in LeafTypes /\ \E e \in edges : e.source = id
    /\ \E id \in nodes : kind[id] = "termination" /\ \E t \in nodes : config[t].termination_condition = id

\* C5: the connection type used to draw an edge is the one derived from the
\* kinds of the edge's two endpoints.
C5_DrawnTypeIsDerived ==
    edgeStyle # NoStyle =>
        edgeStyle.edgeType = ConnectionTypeOf(kind[edgeProps.source], kind[edgeProps.target])

\* C6: the config of every node in the graph is of the variant named by the
\* node's kind, and the component that draws the node reads the config as
\* that variant.
C6_ConfigVariantIsKind ==
    \A id \in nodes :
        /\ config[id].variant = kind[id]
        /\ Rendered(id).as = config[id].variant

C6_Witness ==
    /\ result = "KindMismatch"
    /\ \A k \in {"team", "agent", "model"} : \E id \in nodes : kind[id] = k

\* C7: attaching a Model to a Team or Agent whose model slot is taken, or a
\* Termination to a Team whose termination slot is taken, is rejected with
\* SlotOccupied and changes nothing; an attached model or termination is
\* never replaced by another in one step; no node has two model edges.
ModelEdgesInto(id) == {e \in edges : e.target = id /\ e.type = "model-connection"}

C7_OccupiedSlotRejects ==
    /\ [](\A id \in nodes : Cardinality(ModelEdgesInto(id)) <= 1)
    /\ [][/\ \A parent \in {p \in nodes : config[p].model_client # NoRef} :
              \A child \in {c \in nodes : kind[c] = "model"} :
                  Attach(parent, child, "model-slot") =>
                      (result' = "SlotOccupied" /\ UNCHANGED <<nextNode, nodes, kind, config, edges, nextEdge>>)
          /\ \A parent \in {p \in nodes : config[p].termination_condition # NoRef} :
              \A child \in {c \in nodes : kind[c] = "termination"} :
                  Attach(parent, child, "termination-slot") =>
                      (result' = "SlotOccupied" /\ UNCHANGED <<nextNode, nodes, kind, config, edges, nextEdge>>)
          /\ \A id \in nodes \cap nodes' :
              /\ (config[id].model_client # NoRef /\ config'[id].model_client # NoRef)
                    => config'[id].model_client = config[id].model_client
              /\ (config[id].termination_condition # NoRef /\ config'[id].termination_condition # NoRef)
                    => config'[id].termination_condition = config[id].termination_condition]_vars

C7_Witness ==
    /\ result = "SlotOccupied"
    /\ \E a \in nodes, m1 \in nodes, m2 \in nodes :
          /\ kind[a] = "agent" /\ kind[m1] = "model" /\ kind[m2] = "model" /\ m1 # m2
          /\ config[a].model_client = m1
          /\ ModelEdgesInto(a) # {}
          /\ \A e \in edges : e.source # m2

\* C8: removing an Agent node removes the node, every edge with an endpoint
\* on it and every participant reference to it, keeping the order of the
\* other participants, in one step; no state has an edge or a config
\* reference to a node that is not in the graph.
RefsOf(cfg) ==
    {cfg.model_client, cfg.termination_condition}
        \cup {cfg.participants[i] : i \in 1..Len(cfg.participants)}
        \cup {cfg.tools[i] : i \in 1..Len(cfg.tools)}

EdgesBetween(child, parent, type) ==
    {e \in edges : e.source = child /\ e.target = parent /\ e.type = type}

C9_ConfigAgreesWithEdges ==
    /\ [](\A id \in nodes :
            /\ \A c \in Generated :
                  /\ Cardinality(EdgesBetween(c, id, "model-connection")) =
                        (IF config[id].model_client = c THEN 1 ELSE 0)
                  /\ Cardinality(EdgesBetween(c, id, "participant-connection")) = Count(config[id].participants, c)
                  /\ Cardinality(EdgesBetween(c, id, "tool-connection")) = Count(config[id].tools, c)
            /\ config[id].termination_condition # NoRef =>
                  /\ kind[id] = "team"
                  /\ config[id].termination_condition \in nodes
                  /\ kind[config[id].termination_condition] = "termination")
    /\ [](\A e \in edges :
            /\ e.type = ConnectionTypeOf(kind[e.source], kind[e.target])
            /\ e.type \in EdgeType)
    /\ [][nextEdge' # nextEdge =>
             /\ result' = "ok"
             /\ Cardinality(edges' \ edges) = 1
             /\ \A e \in edges' \ edges :
                   /\ edges' \ {e} = edges
                   /\ ConfigWithout(config', e) = config]_vars

C9_Witness ==
    /\ result = "ok"
    /\ nextEdge = 3
    /\ Cardinality(edges) = 1
    /\ \E a \in nodes, t1 \in nodes, t2 \in nodes :
          /\ kind[a] = "agent" /\ kind[t1] = "tool" /\ kind[t2] = "tool" /\ t1 # t2
          /\ config[a].tools = <<t1>>
          /\ EdgesBetween(t1, a, "tool-connection") # {}

\* C10: a zone never shows can-drop while there is no active item or the
\* active item carries no kind, nor when its accepts list is empty; a drag
\* session changes nothing of the graph and raises no error.
C10_NoKindOrNoAcceptsRejects ==
    /\ []((ActiveType(active) = Nil \/ Len(accepts) = 0) => ~CanDrop)
    /\ [][UNCHANGED graphVars]_vars

C10_Witness ==
    /\ isOver
    /\ active.shape = "no-type"
    /\ Len(accepts) > 0
    /\ ~CanDrop

\* the kinds a rendered node's drop zones accept, over all of its zones
ZoneAccepts(id) ==
    {Rendered(id).zones[i].accepts : i \in 1..Len(Rendered(id).zones)}

AcceptedKinds(id) ==
    UNION {{a[i] : i \in 1..Len(a)} : a \in ZoneAccepts(id)}

\* the kind pairs that have a connection type
TypedPairs ==
    {p \in ComponentTypes \X ComponentTypes : ConnectionTypeOf(p[1], p[2]) \in EdgeType}

\* C11: every (dragged kind, receiving node kind) pair some drop zone of a
\* node in the graph accepts is an allowed connection pair with a connection
\* type among model-connection, tool-connection and participant-connection,
\* and every allowed pair is accepted by some zone of the receiving node; the
\* zones of a Team accept exactly model, agent and termination (one kind per
\* zone), those of an Agent exactly model and tool, and no zone accepts team.
C11_AcceptedPairsAreConnectionPairs ==
    \A id \in nodes :
        /\ \A k \in AcceptedKinds(id) :
              /\ <<k, kind[id]>> \in AllowedPairs
              /\ ConnectionTypeOf(k, kind[id]) \in EdgeType
        /\ \A p \in TypedPairs : p[2] = kind[id] => p[1] \in AcceptedKinds(id)
        /\ \A a \in ZoneAccepts(id) : Len(a) = 1
        /\ kind[id] = "team" => AcceptedKinds(id) = {"model", "agent", "termination"}
        /\ kind[id] = "agent" => AcceptedKinds(id) = {"model", "tool"}
        /\ "team" \notin AcceptedKinds(id)

====
